---- MODULE Spec2Model ----
(***************************************************************************)
(* A model of grub-core/commands/efi/efibootvars.c: the bootnext,          *)
(* bootorder and bootentries commands acting on the EFI variable store.    *)
(*                                                                         *)
(* Text is modelled at the character level: a C string is a sequence of    *)
(* one-character strings without its terminator, and a char array is a     *)
(* sequence of cells in which the terminator is the cell NUL.  A variable  *)
(* buffer is a record [len, units]: its byte length and the 16-bit units   *)
(* that lie wholly inside it (units[j] occupies bytes 2j-2 and 2j-1).      *)
(***************************************************************************)
EXTENDS Integers, Sequences, FiniteSets, TLC

VARIABLES
  store,   \* the firmware variable store, in enumeration order
  cmd,     \* the last command invoked: [op, args]
  ret,     \* what the command returned (a grub_err_t name, or "NORETURN")
  out,     \* what the command printed, one record per grub_printf call
  msg,     \* the entry named by the grub_error message, <<>> if none
  log      \* the store, heap and memory accesses the command made, in order

vars == <<store, cmd, ret, out, msg, log>>

----------------------------------------------------------------------------
(* Bounds of the model *)

\* the largest number of variables in the initial store
MaxVars == 2
\* the largest argc of a command invocation
MaxArgs == 2
\* how many 16-bit units past the end of a buffer an unbounded loop is followed
MaxOverread == 1
\* a fault is injected into one of the first MaxFaultAt calls of its kind
MaxFaultAt == 2

----------------------------------------------------------------------------
(* Characters and strings *)

NUL == "NUL"

LowerDigits == <<"0","1","2","3","4","5","6","7","8","9","a","b","c","d","e","f">>
UpperDigits == <<"0","1","2","3","4","5","6","7","8","9","A","B","C","D","E","F">>

HexChars == {LowerDigits[i] : i \in 1..16} \cup {UpperDigits[i] : i \in 1..16}

grub_isxdigit(c) == c \in HexChars

\* the value of a hexadecimal digit, either case
HexVal(c) == (CHOOSE i \in 1..16 : LowerDigits[i] = c \/ UpperDigits[i] = c) - 1

\* s[i] of a C string, 0-based: the terminator sits at index Len(s)
CharAt(s, i) == IF i < Len(s) THEN s[i + 1] ELSE NUL

\* the C string held by a char array: the cells before the first NUL
CString(buf) ==
  LET ends == {i \in 1..Len(buf) : buf[i] = NUL}
      n    == IF ends = {} THEN Len(buf)
              ELSE (CHOOSE i \in ends : \A j \in ends : i <= j) - 1
  IN  SubSeq(buf, 1, n)

Min(a, b) == IF a < b THEN a ELSE b

\* grub_strncpy (dest + off, src, c): copies the characters of src up to and
\* including its terminator, at most c of them, and pads nothing: the cells
\* after the copied terminator keep what they held.
grub_strncpy(dest, off, src, c) ==
  LET k == Min(Len(src) + 1, c)   \* cells written
  IN  [i \in 1..Len(dest) |->
         IF i > off /\ i <= off + k THEN CharAt(src, i - off - 1) ELSE dest[i]]

\* printf ("%04x", v) of a 16-bit value: four lowercase hexadecimal digits
Hex4(v) ==
  << LowerDigits[((v \div 4096) % 16) + 1], LowerDigits[((v \div 256) % 16) + 1],
     LowerDigits[((v \div 16) % 16) + 1],   LowerDigits[(v % 16) + 1] >>

\* the length of the longest prefix of s made of hexadecimal digits
RECURSIVE HexPrefixLen(_)
HexPrefixLen(s) ==
  IF s = <<>> \/ ~grub_isxdigit(s[1]) THEN 0 ELSE 1 + HexPrefixLen(Tail(s))

\* the number written by the hexadecimal digits ds.  Arguments of the model
\* have at most 5 digits, so the value stays below 2^20 and the parser's
\* overflow check never triggers.
RECURSIVE HexNum(_)
HexNum(ds) ==
  IF ds = <<>> THEN 0
  ELSE 16 * HexNum(SubSeq(ds, 1, Len(ds) - 1)) + HexVal(ds[Len(ds)])

\* grub_strtoul (str, NULL, 16): the number written by the leading digits;
\* with no digit at all it raises GRUB_ERR_BAD_NUMBER and yields 0.
grub_strtoul(str) ==
  LET n == HexPrefixLen(str)
  IN  IF n = 0 THEN [val |-> 0, errno |-> "GRUB_ERR_BAD_NUMBER"]
      ELSE [val |-> HexNum(SubSeq(str, 1, n)), errno |-> "GRUB_ERR_NONE"]

\* the conversion of an unsigned long to grub_efi_uint16_t
U16(v) == v % 65536

----------------------------------------------------------------------------
(* The variable store *)

GlobalGuid == "EFI_GLOBAL_VARIABLE"
OtherGuid  == "VENDOR"

Boot == <<"B","o","o","t">>
BootOrderName == Boot \o <<"O","r","d","e","r">>
BootNextName  == Boot \o <<"N","e","x","t">>

Buf(l, u) == [len |-> l, units |-> u]
NoBuf == Buf(0, <<>>)

Var(n, g, d) == [name |-> n, guid |-> g, data |-> d]

\* the index in st of the variable (name, guid), 0 if there is none
Lookup(st, name, guid) ==
  LET hits == {i \in 1..Len(st) : st[i].name = name /\ st[i].guid = guid}
  IN  IF hits = {} THEN 0 ELSE CHOOSE i \in hits : TRUE

\* one entry of the log
Ev(op, name, id, n, data) == [op |-> op, name |-> name, id |-> id, n |-> n, data |-> data]

\* the log entry of a fetch that returned NULL: the variable is absent
\* ("get", grub_errno clear) or the fetch failed ("getfail", grub_errno set)
GetMiss(name, r, n) ==
  Ev(IF r.errno = "GRUB_ERR_NONE" THEN "get" ELSE "getfail", name, 0, n, NoBuf)

\* a fault injected into a command: the at-th call of the kind fails
NoFault == [kind |-> "none", at |-> 0]

\* grub_efi_get_variable (name, &efi_var_guid, &size): the buffer of the
\* variable of that name under the global GUID; NULL with grub_errno clear
\* if there is none, NULL with grub_errno set if the k-th fetch fails.
grub_efi_get_variable(st, name, f, k) ==
  LET i == Lookup(st, name, GlobalGuid)
  IN  IF f.kind = "get" /\ f.at = k
        THEN [found |-> FALSE, data |-> NoBuf, errno |-> "GRUB_ERR_OUT_OF_MEMORY"]
      ELSE IF i = 0
        THEN [found |-> FALSE, data |-> NoBuf, errno |-> "GRUB_ERR_NONE"]
      ELSE [found |-> TRUE, data |-> st[i].data, errno |-> "GRUB_ERR_NONE"]

\* grub_efi_set_variable (name, &efi_var_guid, data, size): replaces the
\* variable in place, or adds it at the end of the enumeration; a failed
\* write changes nothing and returns an error.
grub_efi_set_variable(st, name, data, f) ==
  LET i == Lookup(st, name, GlobalGuid)
  IN  IF f.kind = "set" /\ f.at = 1
        THEN [store |-> st, status |-> "GRUB_ERR_IO"]
      ELSE IF i = 0
        THEN [store |-> Append(st, Var(name, GlobalGuid, data)), status |-> "GRUB_ERR_NONE"]
      ELSE [store |-> [st EXCEPT ![i].data = data], status |-> "GRUB_ERR_NONE"]

----------------------------------------------------------------------------
(* validate_bootorder_entries *)

\* char boot_entry_var[] = "Boot0000";
BootEntryVarInit == Boot \o <<"0","0","0","0",NUL>>

\* validate_bootorder_entries without its early return: a failed fetch is
\* noted and the scan goes on, so the entry returned is the last invalid one
RECURSIVE ValidateLoopNoReturn(_, _, _, _, _, _)
ValidateLoopNoReturn(st, num_entries, entries, f, i, acc) ==
  IF i > num_entries THEN acc
  ELSE
    LET b  == grub_strncpy(acc.buf, 4, entries[i], 4)
        nm == CString(b)
        r  == grub_efi_get_variable(st, nm, f, i)
        id == Len(acc.log) + 1
    IN  IF ~r.found
          THEN ValidateLoopNoReturn(st, num_entries, entries, f, i + 1,
                 [acc EXCEPT !.buf = b, !.bad = i, !.errno = r.errno,
                             !.log = Append(@, GetMiss(nm, r, i))])
        ELSE ValidateLoopNoReturn(st, num_entries, entries, f, i + 1,
               [acc EXCEPT !.buf = b,
                           !.log = @ \o << Ev("get", nm, id, i, r.data),
                                           Ev("free", <<>>, id, 0, NoBuf) >>])

\* One iteration of the loop and the ones after it.  acc carries the local
\* array boot_entry_var, the log, and bad: the index of the entry returned
\* (0 for NULL).
RECURSIVE ValidateLoop(_, _, _, _, _, _)
ValidateLoop(st, num_entries, entries, f, i, acc) ==
  IF i > num_entries THEN acc
  ELSE
    LET b  == grub_strncpy(acc.buf, 4, entries[i], 4)
        nm == CString(b)
        r  == grub_efi_get_variable(st, nm, f, i)
        id == Len(acc.log) + 1
    IN  IF ~r.found
          THEN [acc EXCEPT !.buf = b, !.bad = i, !.errno = r.errno,
                           !.log = Append(@, GetMiss(nm, r, i))]
        ELSE ValidateLoop(st, num_entries, entries, f, i + 1,
               [acc EXCEPT !.buf = b,
                           !.log = @ \o << Ev("get", nm, id, i, r.data),
                                           Ev("free", <<>>, id, 0, NoBuf) >>])

validate_bootorder_entries(st, num_entries, entries, f, lg) ==
  ValidateLoop(st, num_entries, entries, f, 1,
               [buf |-> BootEntryVarInit, bad |-> 0, errno |-> "GRUB_ERR_NONE", log |-> lg])

----------------------------------------------------------------------------
(* validate_bootorder_fmt *)

\* the while loop over one entry: 0 at the first character that is no
\* hexadecimal digit; then 0 if the entry has more than 4 characters
FmtEntryOk(entry) ==
  /\ \A j \in 1..Len(entry) : grub_isxdigit(entry[j])
  /\ ~((Len(entry) + 1) > 5)

validate_bootorder_fmt(entries, order) ==
  \A i \in 1..entries : FmtEntryOk(order[i])

----------------------------------------------------------------------------
(* The result of a command *)

Pr(fmt, a, b) == [fmt |-> fmt, a |-> a, b |-> b]

Result(st, r, o, m, lg) == [store |-> st, ret |-> r, out |-> o, msg |-> m, log |-> lg]

----------------------------------------------------------------------------
(* grub_cmd_bootnext *)

BootnextQuery(st, f) ==
  LET r == grub_efi_get_variable(st, BootNextName, f, 1)
  IN  IF r.found
        THEN Result(st, "GRUB_ERR_NONE",
                    << Pr("BootNext: %04x\n", Hex4(r.data.units[1]), <<>>) >>, <<>>,
                    << Ev("get", BootNextName, 1, 0, r.data),
                       Ev("read", <<>>, 1, 2, NoBuf),
                       Ev("free", <<>>, 1, 0, NoBuf) >>)
      ELSE Result(st, r.errno,
                  IF r.errno = "GRUB_ERR_NONE"
                    THEN << Pr("BootNext: not set.\n", <<>>, <<>>) >> ELSE <<>>,
                  <<>>,
                  << GetMiss(BootNextName, r, 0) >>)

BootnextSet(st, args, f) ==
  LET v   == validate_bootorder_entries(st, 1, args, f, <<>>)
      n   == grub_strtoul(args[1])
      new == Buf(2, << U16(n.val) >>)
      w   == grub_efi_set_variable(st, BootNextName, new, f)
  IN  IF v.bad # 0
        THEN Result(st, "GRUB_ERR_BAD_ARGUMENT", <<>>, args[v.bad], v.log)
      ELSE IF n.errno # "GRUB_ERR_NONE"
        THEN Result(st, n.errno, <<>>, <<>>, v.log)
      ELSE Result(w.store, w.status, <<>>, <<>>,
                  Append(v.log, Ev("set", BootNextName, 0, 2, new)))

grub_cmd_bootnext(st, args, f) ==
  IF Len(args) = 0 THEN BootnextQuery(st, f) ELSE BootnextSet(st, args, f)

----------------------------------------------------------------------------
(* Memory past the end of a buffer *)

\* values a read past the end of a buffer may yield (besides zero)
Garbage == {65, 55357}

RECURSIVE SeqsUpTo(_, _)
SeqsUpTo(S, n) ==
  IF n = 0 THEN {<<>>}
  ELSE LET shorter == SeqsUpTo(S, n - 1)
       IN  shorter \cup {Append(q, x) : q \in {r \in shorter : Len(r) = n - 1}, x \in S}

\* What lies past the end of a buffer is not determined by the program:
\* some nonzero units, and then either a zero unit or unmapped memory.
UBs == [units : SeqsUpTo(Garbage, MaxOverread), end : {"zero", "fault"}]
NoUB == [units |-> <<>>, end |-> "fault"]

\* grub_size_t arithmetic wraps.  The width is 32 or 64 bits by target; the
\* model wraps at 2^30, which TLC's integers can hold: all that depends on
\* it is that 0 - 1 is larger than every index the model follows.
SizeModulus == 2^30

----------------------------------------------------------------------------
(* grub_cmd_bootorder *)

\* the for loop of the query, from index i (0-based) on, and the printf
\* after it.  g are the units found past the end of the buffer.
RECURSIVE BootorderPrintLoop(_, _, _, _, _)
BootorderPrintLoop(data, num_entries, g, i, acc) ==
  LET inside == 2 * i + 2 <= data.len
      over   == i - (data.len \div 2)     \* units already read past the end
  IN  IF i < (num_entries - 1) % SizeModulus
        THEN IF inside
               THEN BootorderPrintLoop(data, num_entries, g, i + 1,
                      [acc EXCEPT !.out = Append(@, Pr("%04x, ", Hex4(data.units[i + 1]), <<>>)),
                                  !.readEnd = 2 * i + 2])
             ELSE IF over < Len(g)
               THEN BootorderPrintLoop(data, num_entries, g, i + 1,
                      [acc EXCEPT !.out = Append(@, Pr("%04x, ", Hex4(g[over + 1]), <<>>)),
                                  !.readEnd = 2 * i + 2])
             ELSE [acc EXCEPT !.readEnd = 2 * i + 2, !.returns = FALSE]
      ELSE [acc EXCEPT !.out = Append(@, Pr("%04x.\n", Hex4(data.units[num_entries]), <<>>)),
                       !.readEnd = 2 * num_entries]

BootorderQuery(st, f, ub) ==
  LET r           == grub_efi_get_variable(st, BootOrderName, f, 1)
      num_entries == r.data.len \div 2
      p           == BootorderPrintLoop(r.data, num_entries, ub.units, 0,
                       [out |-> << Pr("Boot order: ", <<>>, <<>>) >>,
                        readEnd |-> 0, returns |-> TRUE])
      got         == << Ev("get", BootOrderName, 1, 0, r.data),
                        Ev("read", <<>>, 1, p.readEnd, r.data) >>
  IN  IF ~r.found
        THEN Result(st, r.errno, <<>>, <<>>, << GetMiss(BootOrderName, r, 0) >>)
      ELSE IF ~p.returns
        THEN Result(st, "NORETURN", p.out, <<>>, got)
      ELSE Result(st, "GRUB_ERR_NONE", p.out, <<>>,
                  Append(got, Ev("free", <<>>, 1, 0, NoBuf)))

\* bootorder set that commits as it validates: when an entry turns out
\* inaccessible the entries before it have already been written
BootorderSetEager(st, args, f) ==
  LET argc   == Len(args)
      v      == validate_bootorder_entries(st, argc, args, f, <<>>)
      id     == Len(v.log) + 1
      values == [i \in 1..argc |-> U16(grub_strtoul(args[i]).val)]
      part   == Buf(2 * (v.bad - 1), SubSeq(values, 1, v.bad - 1))
      order  == Buf(2 * argc, values)
      wp     == grub_efi_set_variable(st, BootOrderName, part, f)
      w      == grub_efi_set_variable(st, BootOrderName, order, f)
  IN  IF ~validate_bootorder_fmt(argc, args)
        THEN Result(st, "GRUB_ERR_BAD_ARGUMENT", <<>>, <<>>, <<>>)
      ELSE IF v.bad > 1
        THEN Result(wp.store, "GRUB_ERR_BAD_ARGUMENT", <<>>, args[v.bad],
                    Append(v.log, Ev("set", BootOrderName, 0, 2 * (v.bad - 1), part)))
      ELSE IF v.bad # 0
        THEN Result(st, "GRUB_ERR_BAD_ARGUMENT", <<>>, args[v.bad], v.log)
      ELSE IF f.kind = "malloc" /\ f.at = 1
        THEN Result(st, "GRUB_ERR_OUT_OF_MEMORY", <<>>, <<>>,
                    Append(v.log, Ev("malloc", <<>>, 0, 2 * argc, NoBuf)))
      ELSE Result(w.store, w.status, <<>>, <<>>,
                  v.log \o << Ev("malloc", <<>>, id, 2 * argc, NoBuf),
                              Ev("write", <<>>, id, 2 * argc, NoBuf),
                              Ev("set", BootOrderName, id, 2 * argc, order),
                              Ev("free", <<>>, id, 0, NoBuf) >>)

\* order[i] = grub_strtoul (args[i], NULL, 16) for every i
ParseOrder(args) == [i \in 1..Len(args) |-> U16(grub_strtoul(args[i]).val)]

BootorderSet(st, args, f) ==
  LET argc       == Len(args)
      v          == validate_bootorder_entries(st, argc, args, f, <<>>)
      order_size == argc * 2
      id         == Len(v.log) + 1
      order      == Buf(order_size, ParseOrder(args))
      w          == grub_efi_set_variable(st, BootOrderName, order, f)
  IN  IF ~validate_bootorder_fmt(argc, args)
        THEN Result(st, "GRUB_ERR_BAD_ARGUMENT", <<>>, <<>>, <<>>)
      ELSE IF v.bad # 0
        THEN Result(st, "GRUB_ERR_BAD_ARGUMENT", <<>>, args[v.bad], v.log)
      ELSE IF f.kind = "malloc" /\ f.at = 1
        THEN Result(st, "GRUB_ERR_OUT_OF_MEMORY", <<>>, <<>>,
                    Append(v.log, Ev("malloc", <<>>, 0, order_size, NoBuf)))
      ELSE Result(w.store, w.status, <<>>, <<>>,
                  v.log \o << Ev("malloc", <<>>, id, order_size, NoBuf),
                              Ev("write", <<>>, id, order_size, NoBuf),
                              Ev("set", BootOrderName, id, order_size, order),
                              Ev("free", <<>>, id, 0, NoBuf) >>)

grub_cmd_bootorder(st, args, f, ub) ==
  IF Len(args) = 0 THEN BootorderQuery(st, f, ub) ELSE BootorderSet(st, args, f)

----------------------------------------------------------------------------
(* print_single_boot_entry *)

\* the bytes of efi_load_option_t before description[]
DescOffset == 6

\* how many units of description[] lie wholly inside the buffer
UnitsInside(data) == IF data.len >= DescOffset THEN (data.len - DescOffset) \div 2 ELSE 0

\* opt->description[j], j 0-based: from the buffer while inside it, from
\* what lies past it (g) after that
DescUnit(data, g, j) ==
  IF j < UnitsInside(data) THEN data.units[DescOffset \div 2 + j + 1]
  ELSE g[j - UnitsInside(data) + 1]

\* for (desc_offset = opt->description; *desc_offset; desc_offset++);
\* n is the number of units before the zero unit found; readEnd the offset
\* after the last byte read; found is FALSE if the scan ran into unmapped memory
RECURSIVE ScanDescription(_, _, _)
ScanDescription(data, ub, j) ==
  LET over == j - UnitsInside(data)
  IN  IF j < UnitsInside(data)
        THEN IF data.units[DescOffset \div 2 + j + 1] = 0
               THEN [n |-> j, readEnd |-> DescOffset + 2 * j + 2, found |-> TRUE]
             ELSE ScanDescription(data, ub, j + 1)
      ELSE IF over < Len(ub.units)
        THEN ScanDescription(data, ub, j + 1)
      ELSE [n |-> j, readEnd |-> DescOffset + 2 * j + 2, found |-> ub.end = "zero"]

\* the UTF-8 bytes of one code point below 0x10000 that is no surrogate
Utf8Bmp(code) ==
  IF code <= 127 THEN << code >>
  ELSE IF code <= 2047 THEN << (code \div 64) + 192, (code % 64) + 128 >>
  ELSE << (code \div 4096) + 224, ((code \div 64) % 64) + 128, (code % 64) + 128 >>

\* the UTF-8 bytes of the code point of a surrogate pair
Utf8Pair(hi, lo) ==
  LET code == (hi - 55296) * 1024 + (lo - 56320) + 65536
  IN  << (code \div 262144) + 240, ((code \div 4096) % 64) + 128,
         ((code \div 64) % 64) + 128, (code % 64) + 128 >>

IsHigh(code) == code >= 55296 /\ code <= 56319
IsLow(code)  == code >= 56320 /\ code <= 57343

\* grub_utf16_to_utf8 (dest, src, size): a surrogate pair gives 4 bytes, a
\* surrogate without its partner gives '?' (63), a high surrogate at the
\* very end gives nothing.
RECURSIVE grub_utf16_to_utf8(_, _)
grub_utf16_to_utf8(src, code_high) ==
  IF src = <<>> THEN <<>>
  ELSE LET code == src[1]
       IN  IF code_high # 0
             THEN IF IsLow(code)
                    THEN Utf8Pair(code_high, code) \o grub_utf16_to_utf8(Tail(src), 0)
                  ELSE << 63 >> \o grub_utf16_to_utf8(src, 0)
           ELSE IF IsHigh(code) THEN grub_utf16_to_utf8(Tail(src), code)
           ELSE IF IsLow(code) THEN << 63 >> \o grub_utf16_to_utf8(Tail(src), 0)
           ELSE Utf8Bmp(code) \o grub_utf16_to_utf8(Tail(src), 0)

\* print_single_boot_entry returning at once when grub_malloc fails, instead
\* of going to end: the load option is not released
PrintSingleNoCleanup(st, boot_entry, f, ub, acc) ==
  LET r    == grub_efi_get_variable(st, boot_entry, f, acc.gets + 1)
      opt  == Len(acc.log) + 1
      sc   == ScanDescription(r.data, ub, 0)
      desc == [j \in 1..sc.n |-> DescUnit(r.data, ub.units, j - 1)]
      size == 4 * sc.n + 1
      utf8 == grub_utf16_to_utf8(desc, 0)
      dst  == opt + 2
      a1   == [acc EXCEPT !.gets = @ + 1]
      lg1  == acc.log \o << Ev("get", boot_entry, opt, 0, r.data),
                            Ev("read", <<>>, opt, sc.readEnd, r.data) >>
  IN  IF ~r.found
        THEN [a1 EXCEPT !.errno = r.errno,
                        !.log = Append(@, GetMiss(boot_entry, r, 0))]
      ELSE IF ~sc.found
        THEN [a1 EXCEPT !.returns = FALSE, !.log = lg1]
      ELSE IF f.kind = "malloc" /\ f.at = acc.mallocs + 1
        THEN [a1 EXCEPT !.errno = "GRUB_ERR_OUT_OF_MEMORY", !.mallocs = @ + 1,
                        !.log = Append(lg1, Ev("malloc", <<>>, 0, size, NoBuf))]
      ELSE [a1 EXCEPT !.mallocs = @ + 1,
                      !.out = Append(@, Pr("%s: %s\n", boot_entry, utf8)),
                      !.log = lg1 \o << Ev("malloc", <<>>, dst, size, NoBuf),
                                        Ev("write", <<>>, dst, Len(utf8) + 1, NoBuf),
                                        Ev("free", <<>>, opt, 0, NoBuf),
                                        Ev("free", <<>>, dst, 0, NoBuf) >>]

\* acc carries what bootentries has printed and logged so far, gets and
\* mallocs (the calls made so far), errno (grub_errno) and returns.
print_single_boot_entry(st, boot_entry, f, ub, acc) ==
  LET r    == grub_efi_get_variable(st, boot_entry, f, acc.gets + 1)
      opt  == Len(acc.log) + 1
      sc   == ScanDescription(r.data, ub, 0)
      desc == [j \in 1..sc.n |-> DescUnit(r.data, ub.units, j - 1)]
      size == 4 * sc.n + 1
      utf8 == grub_utf16_to_utf8(desc, 0)
      dst  == opt + 2
      a1   == [acc EXCEPT !.gets = @ + 1]
      lg1  == acc.log \o << Ev("get", boot_entry, opt, 0, r.data),
                            Ev("read", <<>>, opt, sc.readEnd, r.data) >>
  IN  IF ~r.found
        THEN [a1 EXCEPT !.errno = r.errno,
                        !.log = Append(@, GetMiss(boot_entry, r, 0))]
      ELSE IF ~sc.found
        THEN [a1 EXCEPT !.returns = FALSE, !.log = lg1]
      ELSE IF f.kind = "malloc" /\ f.at = acc.mallocs + 1
        THEN [a1 EXCEPT !.errno = "GRUB_ERR_OUT_OF_MEMORY", !.mallocs = @ + 1,
                        !.log = lg1 \o << Ev("malloc", <<>>, 0, size, NoBuf),
                                          Ev("free", <<>>, opt, 0, NoBuf) >>]
      ELSE [a1 EXCEPT !.mallocs = @ + 1,
                      !.out = Append(@, Pr("%s: %s\n", boot_entry, utf8)),
                      !.log = lg1 \o << Ev("malloc", <<>>, dst, size, NoBuf),
                                        Ev("write", <<>>, dst, Len(utf8) + 1, NoBuf),
                                        Ev("free", <<>>, opt, 0, NoBuf),
                                        Ev("free", <<>>, dst, 0, NoBuf) >>]

----------------------------------------------------------------------------
(* grub_cmd_bootentries *)

\* grub_strncmp ("Boot", name, 4) == 0
HasBootPrefix(name) == \A i \in 0..3 : CharAt(name, i) = Boot[i + 1]

\* the for loop over name[4..7] and the test of name[8]; the loop leaves at
\* the first character that is no digit, so it never reads past the terminator
IsBootEntryName(name) ==
  /\ HasBootPrefix(name)
  /\ \A i \in 4..7 : i <= Len(name) /\ grub_isxdigit(CharAt(name, i))
  /\ CharAt(name, 8) = NUL

\* grub_efi_get_next_variable_name (&size, name, &vendor_guid), k-th call:
\* the name of the k-th variable in a buffer that replaces the one passed in
\* (which the callee consumes); NULL at the end of the list or on failure,
\* and then the buffer passed in stays the caller's.
grub_efi_get_next_variable_name(st, f, k) ==
  IF f.kind = "next" /\ f.at = k
    THEN [name |-> <<>>, more |-> FALSE, errno |-> "GRUB_ERR_OUT_OF_MEMORY"]
  ELSE IF k > Len(st)
    THEN [name |-> <<>>, more |-> FALSE, errno |-> "GRUB_ERR_NONE"]
  ELSE [name |-> st[k].name, more |-> TRUE, errno |-> "GRUB_ERR_NONE"]

\* the while loop from the k-th call on; acc.name is the id of the buffer
\* held in name (0 for NULL)
RECURSIVE BootentriesLoop(_, _, _, _, _)
BootentriesLoop(st, f, ub, k, acc) ==
  LET nx  == grub_efi_get_next_variable_name(st, f, k)
      id  == Len(acc.log) + 1
      a1  == [acc EXCEPT !.name = id,
                         !.log = Append(@, Ev("next", nx.name, id, acc.name, NoBuf))]
      p   == print_single_boot_entry(st, nx.name, f, ub, a1)
  IN  IF ~nx.more
        THEN [acc EXCEPT !.errno = nx.errno]
      ELSE IF ~IsBootEntryName(nx.name)
        THEN BootentriesLoop(st, f, ub, k + 1, a1)
      ELSE IF ~p.returns \/ p.errno # "GRUB_ERR_NONE"
        THEN p
      ELSE BootentriesLoop(st, f, ub, k + 1, p)

grub_cmd_bootentries(st, f, ub) ==
  LET e == BootentriesLoop(st, f, ub, 1,
             [out |-> << Pr("Boot entries:\n", <<>>, <<>>) >>, log |-> <<>>,
              gets |-> 0, mallocs |-> 0, name |-> 0,
              errno |-> "GRUB_ERR_NONE", returns |-> TRUE])
  IN  IF ~e.returns
        THEN Result(st, "NORETURN", e.out, <<>>, e.log)
      ELSE Result(st, e.errno, e.out, <<>>,
                  IF e.name = 0 THEN e.log
                  ELSE Append(e.log, Ev("free", <<>>, e.name, 0, NoBuf)))

----------------------------------------------------------------------------
(* The stores and arguments the model draws from *)

\* load options: 3 units of header (attributes, filepathlistlength), then
\* the description and what follows it
OptWide  == Buf(18, <<1, 0, 0, 65, 8364, 55357, 56832, 0, 7>>) \* "A", a 3-byte char, a surrogate pair; more fields
OptEmpty == Buf(8,  <<1, 0, 0, 0>>)        \* "", its terminator the last unit of the buffer
OptOpen  == Buf(9,  <<1, 0, 0, 65>>)       \* no zero unit; odd length
OptShort == Buf(4,  <<1, 0>>)              \* shorter than the header

Pool ==
  << Var(Boot \o <<"0","0","0","1">>,     GlobalGuid, OptWide),
     Var(Boot \o <<"0","0","0","1">>,     OtherGuid,  OptEmpty),
     Var(Boot \o <<"0","0","1","F">>,     GlobalGuid, OptEmpty),
     Var(Boot \o <<"1">>,                 GlobalGuid, OptEmpty),
     Var(Boot \o <<"1","2","3","4">>,     GlobalGuid, OptOpen),
     Var(Boot \o <<"0","0","0","2">>,     GlobalGuid, OptShort),
     Var(Boot,                            GlobalGuid, OptEmpty),
     Var(Boot \o <<"0","0","0","1","0">>, GlobalGuid, OptEmpty),
     Var(BootOrderName,                   GlobalGuid, Buf(3, <<31>>)),
     Var(BootOrderName,                   GlobalGuid, Buf(1, <<>>)) >>

\* the stores of at most n variables drawn from the pool in its order, no
\* two of them with the same name and GUID
RECURSIVE StoresFrom(_, _)
StoresFrom(i, n) ==
  IF n = 0 \/ i > Len(Pool) THEN {<<>>}
  ELSE StoresFrom(i + 1, n)
       \cup {<<Pool[i]>> \o t : t \in {u \in StoresFrom(i + 1, n - 1) :
                 Lookup(u, Pool[i].name, Pool[i].guid) = 0}}

Args ==
  { <<"1">>, <<"0","0","1","F">>, <<"1","2","3","4","5">>, <<>>, <<"1","g">> }

ArgLists == SeqsUpTo(Args, MaxArgs)

----------------------------------------------------------------------------
(* The state machine: one action per command *)

\* the faults injected into a command: a fetch, an allocation or a step of
\* the enumeration among the first MaxFaultAt, or the write
GetFaults    == [kind : {"get"}, at : 1..MaxFaultAt]
MallocFaults == [kind : {"malloc"}, at : 1..MaxFaultAt]
NextFaults   == [kind : {"next"}, at : 1..MaxFaultAt]
SetFault     == [kind |-> "set", at |-> 1]

Idle == [op |-> "none", args |-> <<>>]

Init ==
  /\ store \in StoresFrom(1, MaxVars)
  /\ cmd = Idle
  /\ ret = "GRUB_ERR_NONE"
  /\ out = <<>>
  /\ msg = <<>>
  /\ log = <<>>

Finish(op, args, r) ==
  /\ cmd'   = [op |-> op, args |-> args]
  /\ store' = r.store
  /\ ret'   = r.ret
  /\ out'   = r.out
  /\ msg'   = r.msg
  /\ log'   = r.log

\* bootnext [bootnum]
Bootnext ==
  /\ cmd = Idle
  /\ \E args \in ArgLists, f \in {NoFault, SetFault, [kind |-> "get", at |-> 1]} :
       Finish("bootnext", args, grub_cmd_bootnext(store, args, f))

\* bootorder [bootnum]...
Bootorder ==
  /\ cmd = Idle
  /\ \/ \E f \in {NoFault} \cup GetFaults, ub \in UBs :
          Finish("bootorder", <<>>, grub_cmd_bootorder(store, <<>>, f, ub))
     \/ \E args \in ArgLists \ {<<>>},
           f \in {NoFault, SetFault} \cup GetFaults \cup MallocFaults :
          Finish("bootorder", args, grub_cmd_bootorder(store, args, f, NoUB))

\* bootentries
Bootentries ==
  /\ cmd = Idle
  /\ \E f \in {NoFault} \cup GetFaults \cup MallocFaults \cup NextFaults, ub \in UBs :
       Finish("bootentries", <<>>, grub_cmd_bootentries(store, f, ub))

\* A command that returned gives control back to the shell, which clears
\* grub_errno and waits for the next command; the store is all that stays.
Prompt ==
  /\ cmd # Idle
  /\ ret # "NORETURN"
  /\ cmd' = Idle
  /\ ret' = "GRUB_ERR_NONE"
  /\ out' = <<>>
  /\ msg' = <<>>
  /\ log' = <<>>
  /\ UNCHANGED store

Next == Bootnext \/ Bootorder \/ Bootentries \/ Prompt

Spec == Init /\ [][Next]_vars

----------------------------------------------------------------------------
(* Vocabulary of the properties *)

NONE == "GRUB_ERR_NONE"

IsSetCmd(c, op) == c.op = op /\ Len(c.args) >= 1
IsQueryCmd(c, op) == c.op = op /\ Len(c.args) = 0

\* positions of the log holding an entry of the given kind
At(lg, op) == {i \in 1..Len(lg) : lg[i].op = op}

\* the command met no failure of the store or of the allocator
NoFailure(lg, r) ==
  /\ At(lg, "getfail") = {}
  /\ \A i \in At(lg, "malloc") : lg[i].id # 0
  /\ r # "GRUB_ERR_IO"

\* an argument of 1 to 4 hexadecimal digits
WellFormed(arg) ==
  /\ Len(arg) \in 1..4
  /\ \A j \in 1..Len(arg) : arg[j] \in HexChars

UpperHex4(v) ==
  << UpperDigits[((v \div 4096) % 16) + 1], UpperDigits[((v \div 256) % 16) + 1],
     UpperDigits[((v \div 16) % 16) + 1],   UpperDigits[(v % 16) + 1] >>

\* the store holds the boot entry numbered v: a variable of the global GUID
\* named Boot and the four-digit form of v, in either case of the digits
EntryExists(st, v) ==
  \/ Lookup(st, Boot \o UpperHex4(v), GlobalGuid) # 0
  \/ Lookup(st, Boot \o Hex4(v), GlobalGuid) # 0

\* the number an argument of hexadecimal digits denotes, digit by digit
RECURSIVE NumberOf(_)
NumberOf(arg) ==
  IF arg = <<>> THEN 0
  ELSE NumberOf(SubSeq(arg, 1, Len(arg) - 1)) * 16 + HexVal(arg[Len(arg)])

\* the data of BootOrder in the store, NoBuf if it is absent
OrderIn(st) ==
  LET i == Lookup(st, BootOrderName, GlobalGuid)
  IN  IF i = 0 THEN NoBuf ELSE st[i].data

----------------------------------------------------------------------------
(* C1 *)

\* C1: a bootorder or bootnext set that returns a validation, parse or
\* allocation error called set_variable never and left the store as it was
\* (any error leaves the store as it was); one that succeeds called
\* set_variable exactly once, after every get_variable of the validator, and
\* for bootorder the buffer written holds the argc parsed values, 2 * argc
\* bytes, in argument order.
C1_ValidateThenCommit ==
  [][ (IsSetCmd(cmd', "bootorder") \/ IsSetCmd(cmd', "bootnext")) =>
        LET sets == At(log', "set")
            argc == Len(cmd'.args)
        IN  /\ ret' # NONE => store' = store
            /\ ret' \in {"GRUB_ERR_BAD_ARGUMENT", "GRUB_ERR_BAD_NUMBER",
                         "GRUB_ERR_OUT_OF_MEMORY"} => sets = {}
            /\ ret' = NONE =>
                 /\ Cardinality(sets) = 1
                 /\ \A i \in sets : \A j \in At(log', "get") \cup At(log', "getfail") : j < i
                 /\ cmd'.op = "bootorder" =>
                      \A i \in sets :
                        /\ log'[i].n = 2 * argc
                        /\ log'[i].data.len = 2 * argc
                        /\ Len(log'[i].data.units) = argc
                        /\ \A k \in 1..argc :
                             log'[i].data.units[k] = NumberOf(cmd'.args[k]) % 65536
                        /\ OrderIn(store') = log'[i].data ]_vars

\* a bootorder set of two arguments succeeded, after two fetches
C1_Witness ==
  /\ IsSetCmd(cmd, "bootorder") /\ Len(cmd.args) = 2
  /\ ret = NONE
  /\ Cardinality(At(log, "get")) = 2
  /\ Cardinality(At(log, "set")) = 1

----------------------------------------------------------------------------
(* C2 *)

\* C2: every value a successful bootorder set writes to BootOrder is the
\* number of a boot entry the store holds: a variable named Boot followed by
\* the four-digit zero-padded form of the value.
C2_OnlyExistingEntries ==
  (IsSetCmd(cmd, "bootorder") /\ ret = NONE) =>
     \A k \in 1..Len(OrderIn(store).units) : EntryExists(store, OrderIn(store).units[k])

----------------------------------------------------------------------------
(* C3 *)

\* C3: bootorder L, with every element of L of 1 to 4 hexadecimal digits and
\* the number of an entry the store holds, succeeds (no store or allocator
\* failure) and stores the numbers of L in order; and bootorder with no
\* argument prints the stored numbers in order, each as 4 lowercase digits.
C3_SetThenQuery ==
  /\ ( /\ IsSetCmd(cmd, "bootorder")
       /\ NoFailure(log, ret)
       /\ \A k \in 1..Len(cmd.args) :
            WellFormed(cmd.args[k]) /\ EntryExists(store, NumberOf(cmd.args[k])) )
     => /\ ret = NONE
        /\ OrderIn(store).units = [k \in 1..Len(cmd.args) |-> NumberOf(cmd.args[k])]
  /\ ( /\ IsQueryCmd(cmd, "bootorder")
       /\ ret = NONE
       /\ OrderIn(store).len >= 2 )
     => /\ Len(out) = Len(OrderIn(store).units) + 1
        /\ \A k \in 1..Len(OrderIn(store).units) : out[k + 1].a = Hex4(OrderIn(store).units[k])

----------------------------------------------------------------------------
(* C4 *)

\* an argument with a character that is no hexadecimal digit, of more than
\* 4 characters, or empty
Malformed(arg) == ~WellFormed(arg)

\* C4: a bootorder set with a malformed argument, and a bootnext set whose
\* argument is malformed, return an error and write nothing to the store.
C4_MalformedRejected ==
  ( \/ IsSetCmd(cmd, "bootorder") /\ \E k \in 1..Len(cmd.args) : Malformed(cmd.args[k])
    \/ IsSetCmd(cmd, "bootnext") /\ Malformed(cmd.args[1]) )
  => /\ ret # NONE
     /\ At(log, "set") = {}

----------------------------------------------------------------------------
(* C5 *)

\* the name a candidate stands for: Boot and its first 4 characters
NameFor(entry) == Boot \o SubSeq(entry, 1, Min(Len(entry), 4))

\* the validator ran over the first n arguments of the command: bootnext
\* hands it one entry, bootorder all of them once the format check passed
ValidatedCount(c) ==
  IF c.op = "bootnext" THEN 1
  ELSE IF \A k \in 1..Len(c.args) :
            Len(c.args[k]) <= 4 /\ \A j \in 1..Len(c.args[k]) : c.args[k][j] \in HexChars
    THEN Len(c.args)
  ELSE 0

IsFetch(e) == e.op \in {"get", "getfail"}

\* the i-th candidate names no variable of the store, or its fetch failed
Unreadable(st, lg, entries, i) ==
  \/ Lookup(st, NameFor(entries[i]), GlobalGuid) = 0
  \/ \E j \in At(lg, "getfail") : lg[j].n = i

----------------------------------------------------------------------------
(* C6 *)

\* C6: bootnext with two or more arguments reports an error (a usage error,
\* of the bad-argument kind) and writes nothing to the store.  The kind of
\* the error is left open here: the claim fails already on whether there
\* is an error at all.
C6_UsageError ==
  (cmd.op = "bootnext" /\ Len(cmd.args) >= 2) =>
     /\ ret # NONE
     /\ At(log, "set") = {}

----------------------------------------------------------------------------
(* C7 *)

\* Boot followed by 4 hexadecimal digits and nothing else
IsBootXXXX(name) ==
  /\ Len(name) = 8
  /\ SubSeq(name, 1, 4) = Boot
  /\ \A i \in 5..8 : name[i] \in HexChars

IsEntryName(v) == IsBootXXXX(v.name)
IsLine(p) == p.fmt = "%s: %s\n"

\* C7: a bootentries that returns without error has printed one line per
\* enumerated variable named Boot and 4 hexadecimal digits, in enumeration
\* order, and no line for any other name.
C7_OneLinePerEntry ==
  (cmd.op = "bootentries" /\ ret = NONE) =>
     LET lines   == SelectSeq(out, IsLine)
         entries == SelectSeq(store, IsEntryName)
     IN  /\ Len(lines) = Len(entries)
         /\ \A k \in 1..Len(entries) : lines[k].a = entries[k].name

----------------------------------------------------------------------------
(* C8 *)

\* C8: the decoder reads no byte at or past the length of the buffer it
\* retrieved, and writes no byte past the 4 * n + 1 bytes it allocated.
C8_DecoderInBounds ==
  cmd.op = "bootentries" =>
     /\ \A i \in At(log, "read") : log[i].n <= log[i].data.len
     /\ \A i \in At(log, "write") : log[i].n <= log[log[i].id].n

----------------------------------------------------------------------------
(* C9 *)

\* positions of the log where a buffer was obtained; the buffer's id is the
\* position
Obtained(lg) == {i \in 1..Len(lg) : lg[i].op \in {"get", "malloc", "next"} /\ lg[i].id # 0}

\* positions where buffer b is released: freed, or handed back to the
\* enumeration as its cursor
Released(lg, b) ==
  {j \in 1..Len(lg) : \/ lg[j].op = "free" /\ lg[j].id = b
                      \/ lg[j].op = "next" /\ lg[j].n = b}

\* positions where buffer b is read, written or passed to the store
Used(lg, b) == {j \in 1..Len(lg) : lg[j].op \in {"read", "write", "set"} /\ lg[j].id = b}

----------------------------------------------------------------------------
(* C10 *)

\* C10: bootorder with no argument, given a BootOrder of s >= 1 bytes,
\* returns having printed s \div 2 entries and read nothing past the
\* s \div 2 units of the buffer.
C10_QueryPrintsHalfTheBytes ==
  (IsQueryCmd(cmd, "bootorder") /\ At(log, "get") # {} /\ log[1].id # 0) =>
     /\ ret = NONE
     /\ Len(out) = 1 + (log[1].data.len \div 2)
     /\ \A i \in At(log, "read") : log[i].n <= 2 * (log[1].data.len \div 2)

====
